---------------------------- MODULE Spec2Model ----------------------------
(***************************************************************************)
(* A model of scripts/retarget_blend_shape/utils/gui.py: the application   *)
(* accessor, the main-window accessor, the icon path resolver, the wait    *)
(* cursor scope and the error display decorator.                           *)
(*                                                                         *)
(* Python objects are records carrying their class ("type"), the native    *)
(* handle they wrap ("ptr") and their identity ("oid"); None is NoneObj.   *)
(* The helpers are independent of each other except that WaitCursor uses   *)
(* get_application, so each group has its own specification:               *)
(*   SpecApp   get_application and WaitCursor                              *)
(*   SpecWin   get_main_window                                             *)
(*   SpecIcon  get_icon_file_path                                          *)
(*   SpecErr   display_error                                               *)
(***************************************************************************)
EXTENDS Naturals, Sequences, FiniteSets, TLC

VARIABLES
    \* ---- get_application / WaitCursor
    instance,      \* the object QApplication.instance() returns (NoneObj when none)
    appCached,     \* memoize: whether get_application's result is cached
    appCache,      \* memoize: the cached result
    appLast,       \* outcome of the latest get_application() call
    appReturned,   \* every object get_application() has returned
    resolutions,   \* how many times the body of get_application has run
    nextOid,       \* next fresh Python object identity
    scopes,        \* open WaitCursor scopes, outermost first
    nextScope,     \* id of the next WaitCursor scope
    exc,           \* an exception is propagating out of the innermost open scope
    calls,         \* recorded calls on the application, and scope exits by exception
    overrideDepth, \* depth of the toolkit's override-cursor stack
    \* ---- the interpreter
    py,            \* major version of the Python the host embeds (2 or 3)
    \* ---- get_main_window
    hostWindow,    \* what OpenMayaUI.MQtUtil.mainWindow() returns now
    winLog,        \* one entry per get_main_window() call: host value and outcome
    winOid,        \* next fresh identity of a window wrapper
    \* ---- get_icon_file_path
    environ,       \* os.environ's XBMLANGPATH entry
    files,         \* the paths for which os.path.exists is true
    iconCache,     \* memoize: cached result per file name
    iconFirst,     \* per file name, the value its first lookup returned
    iconLast,      \* the latest get_icon_file_path() call and its result
    \* ---- display_error
    errPc,         \* where the wrapper call stands: idle, exec_, returned, raised
    errCall,       \* the arguments of the call and what the wrapped callable does
    dialogs,       \* the message boxes created during the call
    errOut         \* what has reached the caller of the wrapper

appVars == <<instance, appCached, appCache, appLast, appReturned, resolutions,
             nextOid, scopes, nextScope, exc, calls, overrideDepth>>

winVars == <<hostWindow, winLog, winOid>>

iconVars == <<environ, files, iconCache, iconFirst, iconLast>>

errVars == <<errPc, errCall, dialogs, errOut>>

vars == <<appVars, py, winVars, iconVars, errVars>>

---------------------------------------------------------------------------
\* Bounds of the model.

\* The body of get_application runs at most this many times.
MaxResolutions == 3
\* At most this many WaitCursor scopes are entered in a run.
MaxScopes == 3

---------------------------------------------------------------------------
\* Python objects and classes.

NoneObj == [type |-> "NoneType", ptr |-> 0, oid |-> 0]

\* The classes an object of class t is an instance of (t and its bases).
Bases(t) ==
    CASE t = "QApplication"     -> {"QApplication", "QGuiApplication", "QCoreApplication", "QObject"}
      [] t = "QGuiApplication"  -> {"QGuiApplication", "QCoreApplication", "QObject"}
      [] t = "QCoreApplication" -> {"QCoreApplication", "QObject"}
      [] t = "QMainWindow"      -> {"QMainWindow", "QWidget", "QObject"}
      [] t = "QPushButton"      -> {"QPushButton", "QWidget", "QObject"}
      [] t = "QWidget"          -> {"QWidget", "QObject"}
      [] OTHER                  -> {t}

isinstance(obj, cls) == cls \in Bases(obj.type)

\* shiboken2.wrapInstance(ptr, cls): a new wrapper of class cls around ptr.
wrapInstance(ptr, cls, oid) == [type |-> cls, ptr |-> ptr, oid |-> oid]

---------------------------------------------------------------------------
\* get_application

\* The native handle of the application the host owns before the tool runs.
HostAppPtr == 1
\* The native handle of an application the tool constructs itself.
NewAppPtr == 2

\* What QtWidgets.QApplication() can do: with an instance already there it
\* raises; with none it constructs one, or raises when the binding rejects
\* the call (TypeError) or the toolkit refuses to start (RuntimeError).
ConstructOutcomes(inst) ==
    IF inst = NoneObj THEN {"ok", "TypeError", "RuntimeError"}
    ELSE {"TypeError", "RuntimeError"}

\* The body of get_application, run against the instance inst with the
\* construction attempt ending as outcome. raised = "" when it returns.
get_application(inst, outcome, oid) ==
    LET constructed == wrapInstance(NewAppPtr, "QApplication", oid)
        \* try: app = QApplication()  except (TypeError, RuntimeError): app = instance()
        app == IF outcome = "ok" THEN constructed ELSE inst
        inst2 == IF outcome = "ok" THEN constructed ELSE inst
        oid2 == IF outcome = "ok" THEN oid + 1 ELSE oid
    IN  IF ~isinstance(app, "QApplication")
        THEN IF app = NoneObj
             \* shiboken2.getCppPointer(None) raises
             THEN [raised |-> "TypeError", ret |-> NoneObj, inst |-> inst2, oid |-> oid2]
             ELSE [raised |-> "", ret |-> wrapInstance(app.ptr, "QApplication", oid2),
                   inst |-> inst2, oid |-> oid2 + 1]
        ELSE [raised |-> "", ret |-> app, inst |-> inst2, oid |-> oid2]

\* decorator.memoize around get_application: the body runs when nothing is
\* cached, and a result it returns is cached; a raise caches nothing.
memoized_get_application(outcome) ==
    IF appCached
    THEN [raised |-> "", ret |-> appCache, inst |-> instance, oid |-> nextOid,
          cached |-> TRUE, cache |-> appCache, ran |-> 0]
    ELSE LET r == get_application(instance, outcome, nextOid)
         IN  [raised |-> r.raised, ret |-> r.ret, inst |-> r.inst, oid |-> r.oid,
              cached |-> r.raised = "", cache |-> r.ret, ran |-> 1]

\* The effect of one get_application() call on the accessor's state.
AppEffect(r, before) ==
    /\ instance' = r.inst
    /\ appCached' = r.cached
    /\ appCache' = r.cache
    /\ nextOid' = r.oid
    /\ resolutions' = resolutions + r.ran
    /\ appLast' = [status |-> IF r.raised = "" THEN "returned" ELSE "raised",
                   raised |-> r.raised, ret |-> r.ret, before |-> before]
    /\ appReturned' = IF r.raised = "" THEN appReturned \cup {r.ret} ELSE appReturned

\* A direct call of get_application().
Call_get_application ==
    /\ UNCHANGED <<py, winVars, iconVars, errVars>>
    /\ ~exc
    /\ resolutions < MaxResolutions
    /\ \E outcome \in ConstructOutcomes(instance) :
         AppEffect(memoized_get_application(outcome), instance)
    /\ UNCHANGED <<scopes, nextScope, exc, calls, overrideDepth>>

\* The host (or another tool) starts the application after a failed attempt.
HostStartsApplication ==
    /\ UNCHANGED <<py, winVars, iconVars, errVars>>
    /\ instance = NoneObj
    /\ instance' = wrapInstance(HostAppPtr, "QApplication", nextOid)
    /\ nextOid' = nextOid + 1
    /\ UNCHANGED <<appCached, appCache, appLast, appReturned, resolutions,
                   scopes, nextScope, exc, calls, overrideDepth>>

---------------------------------------------------------------------------
\* WaitCursor

Event(op, id) == [op |-> op, scope |-> id]

\* with WaitCursor(): __enter__ gets the application and sets the override
\* cursor. When get_application() raises, __enter__ raises: the scope is not
\* entered and the exception propagates in the enclosing code.
WaitCursor_enter ==
    /\ UNCHANGED <<py, winVars, iconVars, errVars>>
    /\ ~exc
    /\ nextScope <= MaxScopes
    /\ resolutions < MaxResolutions
    /\ \E outcome \in ConstructOutcomes(instance) :
         LET r == memoized_get_application(outcome)
         IN  /\ AppEffect(r, instance)
             /\ IF r.raised = ""
                THEN /\ calls' = Append(calls, Event("setOverrideCursor", nextScope))
                     /\ overrideDepth' = overrideDepth + 1
                     /\ scopes' = Append(scopes, nextScope)
                     /\ nextScope' = nextScope + 1
                     /\ exc' = FALSE
                ELSE /\ exc' = TRUE
                     /\ UNCHANGED <<calls, overrideDepth, scopes, nextScope>>

\* The body of the innermost open scope raises.
BodyRaises ==
    /\ UNCHANGED <<py, winVars, iconVars, errVars>>
    /\ ~exc
    /\ scopes # <<>>
    /\ exc' = TRUE
    /\ UNCHANGED <<instance, appCached, appCache, appLast, appReturned, resolutions,
                   nextOid, scopes, nextScope, calls, overrideDepth>>

\* The code around the innermost open scope (or the top level) handles the
\* exception that reached it.
ExceptionHandled ==
    /\ UNCHANGED <<py, winVars, iconVars, errVars>>
    /\ exc
    /\ exc' = FALSE
    /\ UNCHANGED <<instance, appCached, appCache, appLast, appReturned, resolutions,
                   nextOid, scopes, nextScope, calls, overrideDepth>>

\* __exit__ without the restore when the body raised.
WaitCursor_exit_skip_on_error ==
    /\ UNCHANGED <<py, winVars, iconVars, errVars>>
    /\ scopes # <<>>
    /\ LET id == scopes[Len(scopes)]
           r == memoized_get_application("RuntimeError")
       IN  /\ AppEffect(r, instance)
           /\ scopes' = SubSeq(scopes, 1, Len(scopes) - 1)
           /\ IF exc
              THEN /\ calls' = Append(calls, Event("leave", id))
                   /\ UNCHANGED overrideDepth
              ELSE /\ calls' = Append(calls, Event("restoreOverrideCursor", id))
                   /\ overrideDepth' = overrideDepth - 1
           /\ UNCHANGED <<nextScope, exc>>

\* The innermost scope closes: __exit__ gets the application and restores the
\* override cursor; it returns None, so an exception of the body then leaves
\* the scope and goes on propagating.
WaitCursor_exit ==
    /\ UNCHANGED <<py, winVars, iconVars, errVars>>
    /\ scopes # <<>>
    /\ \E outcome \in ConstructOutcomes(instance) :
         LET id == scopes[Len(scopes)]
             r == memoized_get_application(outcome)
         IN  /\ AppEffect(r, instance)
             /\ scopes' = SubSeq(scopes, 1, Len(scopes) - 1)
             /\ IF r.raised = ""
                THEN /\ calls' = IF exc
                                 THEN calls \o <<Event("restoreOverrideCursor", id),
                                                 Event("leave", id)>>
                                 ELSE Append(calls, Event("restoreOverrideCursor", id))
                     /\ overrideDepth' = overrideDepth - 1
                     /\ UNCHANGED exc
                ELSE /\ calls' = Append(calls, Event("leave", id))
                     /\ exc' = TRUE
                     /\ UNCHANGED overrideDepth
             /\ UNCHANGED nextScope

---------------------------------------------------------------------------
\* get_main_window

\* The largest native window handle the host hands out.
MaxHandle == 2
\* get_main_window() is called at most this many times.
MaxWinCalls == 3

\* A SWIG pointer object around the native handle h.
SwigPointer(h) == [type |-> "SwigPyObject", ptr |-> h, oid |-> 0]

\* The values MQtUtil.mainWindow() can return: None when the host has no
\* main window (the binding turns a null pointer into None), else a pointer.
HostWindowValues == {NoneObj} \cup {SwigPointer(h) : h \in 0..MaxHandle}

\* six.integer_types: (int, long) under Python 2, (int,) under Python 3.
integer_types(version) == IF version = 2 THEN <<"int", "long">> ELSE <<"int">>

\* cls(obj) for an integer class: the pointer's address; None has no integer
\* value and the conversion raises TypeError.
to_integer(cls, obj) ==
    IF obj = NoneObj
    THEN [raised |-> "TypeError", value |-> 0]
    ELSE [raised |-> "", value |-> obj.ptr]

\* The body of get_main_window for the host value host.
get_main_window(host, version, oid) ==
    LET types == integer_types(version)
        ptr == to_integer(types[Len(types)], host)
    IN  IF ptr.raised # ""
        THEN [raised |-> ptr.raised, ret |-> NoneObj]
        ELSE IF ptr.value # 0
             THEN [raised |-> "", ret |-> wrapInstance(ptr.value, "QMainWindow", oid)]
             ELSE [raised |-> "RuntimeError", ret |-> NoneObj]

\* A call of get_main_window(): nothing is kept between calls but the log.
Call_get_main_window ==
    /\ Len(winLog) < MaxWinCalls
    /\ LET r == get_main_window(hostWindow, py, winOid)
       IN  /\ winLog' = Append(winLog, [host |-> hostWindow, raised |-> r.raised,
                                        ret |-> r.ret])
           /\ winOid' = IF r.raised = "" THEN winOid + 1 ELSE winOid
    /\ UNCHANGED <<hostWindow, py, appVars, iconVars, errVars>>

\* The host creates, destroys or replaces its main window.
HostWindowChanges ==
    /\ \E w \in HostWindowValues \ {hostWindow} : hostWindow' = w
    /\ UNCHANGED <<winLog, winOid, py, appVars, iconVars, errVars>>

---------------------------------------------------------------------------
\* get_icon_file_path. A string is a sequence of characters.

\* At most this many directories are listed in XBMLANGPATH.
MaxDirs == 2

\* os.pathsep and os.sep (POSIX).
pathsep == ":"
sep == "/"

\* os.environ.get("XBMLANGPATH") when the variable is not set: None.
Unset == [set |-> FALSE, value |-> <<>>]
EnvString(chars) == [set |-> TRUE, value |-> chars]

\* The directories XBMLANGPATH is made of: "", "/A", "/B" and "/A/".
DirPool == { <<>>, <<"/", "A">>, <<"/", "B">>, <<"/", "A", "/">> }

\* The file names looked up: "x" and the absolute "/B/x".
Names == { <<"x">>, <<"/", "B", "/", "x">> }

\* The paths that may exist: "/A/x", "/B/x" and "x" (in the working
\* directory).
FilePool == { <<"/", "A", "/", "x">>, <<"/", "B", "/", "x">>, <<"x">> }

\* pathsep.join(list): the string a list of directories is written as.
RECURSIVE JoinDirs(_)
JoinDirs(list) ==
    IF Len(list) = 0 THEN <<>>
    ELSE IF Len(list) = 1 THEN list[1]
    ELSE list[1] \o <<pathsep>> \o JoinDirs(Tail(list))

DirLists == UNION { [1..n -> DirPool] : n \in 1..MaxDirs }

\* The values XBMLANGPATH can have: unset, or any list of directories.
EnvValues == {Unset} \cup { EnvString(JoinDirs(l)) : l \in DirLists }

\* str.split(separator).
RECURSIVE split(_, _)
split(s, separator) ==
    LET hits == { i \in 1..Len(s) : s[i] = separator }
    IN  IF hits = {} THEN <<s>>
        ELSE LET i == CHOOSE k \in hits : \A j \in hits : k <= j
             IN  <<SubSeq(s, 1, i - 1)>> \o split(SubSeq(s, i + 1, Len(s)), separator)

\* os.path.join(a, b) (posixpath).
join(a, b) ==
    IF b # <<>> /\ b[1] = sep THEN b
    ELSE IF a = <<>> \/ a[Len(a)] = sep THEN a \o b
    ELSE a \o <<sep>> \o b

\* os.path.exists(path).
exists(path, fs) == path \in fs

\* The for loop of get_icon_file_path from directory i on: the first existing
\* file path, else the ":/" fallback.
RECURSIVE search(_, _, _, _)
search(icon_directories, i, file_name, fs) ==
    IF i > Len(icon_directories) THEN <<":", "/">> \o file_name
    ELSE LET file_path == join(icon_directories[i], file_name)
         IN  IF exists(file_path, fs) THEN file_path
             ELSE search(icon_directories, i + 1, file_name, fs)

\* The loop without its early return: the last existing file path wins.
RECURSIVE search_last(_, _, _, _)
search_last(icon_directories, i, file_name, fs) ==
    IF i < 1 THEN <<":", "/">> \o file_name
    ELSE LET file_path == join(icon_directories[i], file_name)
         IN  IF exists(file_path, fs) THEN file_path
             ELSE search_last(icon_directories, i - 1, file_name, fs)

get_icon_file_path_last_match(file_name, env, fs) ==
    LET icon_directories == IF env.set /\ env.value # <<>>
                            THEN split(env.value, pathsep) ELSE <<>>
    IN  search_last(icon_directories, Len(icon_directories), file_name, fs)

\* The body of get_icon_file_path.
get_icon_file_path(file_name, env, fs) ==
    LET icon_directories == IF env.set /\ env.value # <<>>
                            THEN split(env.value, pathsep) ELSE <<>>
    IN  search(icon_directories, 1, file_name, fs)

NoEntry == [has |-> FALSE, value |-> <<>>]
Entry(v) == [has |-> TRUE, value |-> v]

\* The function without its decorator: the body runs at every call.
Call_get_icon_file_path_uncached(file_name) ==
    LET ret == get_icon_file_path(file_name, environ, files)
    IN  /\ iconLast' = [name |-> file_name, ret |-> ret, first |-> ~iconFirst[file_name].has]
        /\ iconFirst' = IF iconFirst[file_name].has THEN iconFirst
                        ELSE [iconFirst EXCEPT ![file_name] = Entry(ret)]
        /\ UNCHANGED <<iconCache, environ, files, py, appVars, winVars, errVars>>

\* decorator.memoize: the cached result for key when there is one, else the
\* computed result, which becomes the entry for key.
memoize(cache, key, computed) ==
    IF cache[key].has
    THEN [ret |-> cache[key].value, cache |-> cache]
    ELSE [ret |-> computed, cache |-> [cache EXCEPT ![key] = Entry(computed)]]

\* A call of get_icon_file_path(file_name), the function as decorated with
\* decorator.memoize.
Call_get_icon_file_path(file_name) ==
    LET r == memoize(iconCache, file_name,
                     get_icon_file_path(file_name, environ, files))
    IN  /\ iconCache' = r.cache
        /\ iconLast' = [name |-> file_name, ret |-> r.ret, first |-> ~iconFirst[file_name].has]
        /\ iconFirst' = IF iconFirst[file_name].has THEN iconFirst
                        ELSE [iconFirst EXCEPT ![file_name] = Entry(r.ret)]
        /\ UNCHANGED <<environ, files, py, appVars, winVars, errVars>>

Lookup == \E file_name \in Names : Call_get_icon_file_path(file_name)

\* XBMLANGPATH is set, changed or unset.
SetEnvironment ==
    /\ \E e \in EnvValues \ {environ} : environ' = e
    /\ UNCHANGED <<files, iconCache, iconFirst, iconLast, py, appVars, winVars, errVars>>

\* A file is created or removed.
FileChanges ==
    /\ \E f \in FilePool :
         files' = IF f \in files THEN files \ {f} ELSE files \cup {f}
    /\ UNCHANGED <<environ, iconCache, iconFirst, iconLast, py, appVars, winVars, errVars>>

---------------------------------------------------------------------------
\* display_error

\* The wrapper is called with at most this many positional arguments.
MaxArgs == 2

\* An exception object: its class, its args, its identity and, for an
\* exception constructed around another one, the identity of that one.
Exc(cls, args, oid) == [cls |-> cls, args |-> args, oid |-> oid, carries |-> 0]
NoExc == Exc("", <<>>, 0)

\* The classes an exception of class c is an instance of. PairError and
\* PairTypeError are custom classes whose constructor takes two arguments.
ExcBases(c) ==
    CASE c = "ValueError"        -> {"ValueError", "Exception", "BaseException"}
      [] c = "TypeError"         -> {"TypeError", "Exception", "BaseException"}
      [] c = "RuntimeError"      -> {"RuntimeError", "Exception", "BaseException"}
      [] c = "PairError"         -> {"PairError", "Exception", "BaseException"}
      [] c = "PairTypeError"     -> {"PairTypeError", "TypeError", "Exception", "BaseException"}
      [] c = "KeyboardInterrupt" -> {"KeyboardInterrupt", "BaseException"}
      [] c = "SystemExit"        -> {"SystemExit", "BaseException"}
      [] OTHER                   -> {c}

\* Whether cls(...) accepts n positional arguments.
CtorAccepts(cls, n) == IF cls \in {"PairError", "PairTypeError"} THEN n = 2 ELSE TRUE

\* str(e) of BaseException: "", the single argument, or the repr of the
\* tuple of arguments.
str(e) ==
    IF Len(e.args) = 0 THEN ""
    ELSE IF Len(e.args) = 1 THEN e.args[1]
    ELSE "('" \o e.args[1] \o "', '" \o e.args[2] \o "')"

\* The exceptions the wrapped callable raises.
RaisedPool ==
    { Exc("ValueError", <<"boom">>, 1),
      Exc("ValueError", <<>>, 1),
      Exc("TypeError", <<"bad operand">>, 1),
      Exc("RuntimeError", <<"failed">>, 1),
      Exc("PairError", <<"mesh", "missing">>, 1),
      Exc("PairTypeError", <<"mesh", "missing">>, 1),
      Exc("KeyboardInterrupt", <<>>, 1),
      Exc("SystemExit", <<"1">>, 1) }

\* The values the wrapped callable returns, and the arguments it is given.
IntZero == [type |-> "int", ptr |-> 0, oid |-> 20]
Text == [type |-> "str", ptr |-> 0, oid |-> 21]
Widget == [type |-> "QWidget", ptr |-> 31, oid |-> 31]
Button == [type |-> "QPushButton", ptr |-> 32, oid |-> 32]

ReturnPool == {NoneObj, IntZero, Text}
ArgPool == {NoneObj, Text, Widget, Button}
ArgLists == UNION { [1..n -> ArgPool] : n \in 0..MaxArgs }
\* **kwargs: nothing, or the widget passed as parent=...
KwargSets == { {}, {[key |-> "parent", value |-> Widget]} }

FuncOutcomes ==
    { [kind |-> "return", value |-> v, exc |-> NoExc] : v \in ReturnPool }
    \cup { [kind |-> "raise", value |-> NoneObj, exc |-> e] : e \in RaisedPool }

\* six.reraise(tp, value, tb) with value an exception instance: the exception
\* it raises. Python 3 raises value itself. Python 2 runs "raise tp, value,
\* tb": value itself when it is an instance of tp, else tp(value), and the
\* TypeError of the constructor when tp does not take one argument.
reraise(tp, value, version) ==
    IF version = 3 THEN value
    ELSE IF tp \in ExcBases(value.cls) THEN value
    ELSE IF CtorAccepts(tp, 1)
         THEN [cls |-> tp, args |-> <<str(value)>>, oid |-> 2, carries |-> value.oid]
         ELSE Exc("TypeError", <<"__init__() takes exactly 3 arguments (2 given)">>, 3)

\* Lines 116-123: re-raise (t, v, tb), and on a TypeError re-raise v as a
\* RuntimeError.
reraised(v, version) ==
    LET first == reraise(v.cls, v, version)
    IN  IF "TypeError" \in ExcBases(first.cls)
        THEN reraise("RuntimeError", v, version)
        ELSE first

\* except Exception catching only RuntimeError.
caught_runtime_only(e) == "RuntimeError" \in ExcBases(e.cls)

\* "except Exception as e": the exceptions the wrapper handles.
caught(e) == "Exception" \in ExcBases(e.cls)

\* The parent taken from the first positional argument whatever it is.
dialog_parent_unchecked(args) ==
    IF Len(args) > 0 THEN args[1] ELSE NoneObj

\* parent = args[0] if args and isinstance(args[0], QWidget) else None
dialog_parent(args) ==
    IF Len(args) > 0 /\ isinstance(args[1], "QWidget") THEN args[1] ELSE NoneObj

\* The message box built for the exception e (lines 108-112).
message_box(parent, e) ==
    [parent |-> parent, icon |-> "Critical", text |-> str(e), title |-> e.cls,
     buttons |-> {"Ok"}, open |-> TRUE]

NoCall == [args |-> <<>>, kwargs |-> {}, outcome |-> [kind |-> "none", value |-> NoneObj, exc |-> NoExc]]
NoOut == [kind |-> "none", value |-> NoneObj, exc |-> NoExc]

\* wrapper(*args, **kwargs) up to its return, its raise or the exec_() of the
\* message box, which blocks until the user dismisses the dialog.
Call_wrapper ==
    /\ errPc = "idle"
    /\ \E args \in ArgLists, kwargs \in KwargSets, outcome \in FuncOutcomes :
         /\ errCall' = [args |-> args, kwargs |-> kwargs, outcome |-> outcome]
         /\ IF outcome.kind = "return"
            THEN /\ errPc' = "returned"
                 /\ errOut' = [kind |-> "return", value |-> outcome.value, exc |-> NoExc]
                 /\ dialogs' = <<>>
            ELSE IF caught(outcome.exc)
            THEN /\ errPc' = "exec_"
                 /\ dialogs' = <<message_box(dialog_parent(args), outcome.exc)>>
                 /\ errOut' = NoOut
            ELSE /\ errPc' = "raised"
                 /\ errOut' = [kind |-> "raise", value |-> NoneObj, exc |-> outcome.exc]
                 /\ dialogs' = <<>>
    /\ UNCHANGED <<py, appVars, winVars, iconVars>>

\* The user presses Ok: exec_() returns and the wrapper re-raises.
DialogDismissed ==
    /\ errPc = "exec_"
    /\ dialogs' = [i \in DOMAIN dialogs |-> [dialogs[i] EXCEPT !.open = FALSE]]
    /\ errOut' = [kind |-> "raise", value |-> NoneObj,
                  exc |-> reraised(errCall.outcome.exc, py)]
    /\ errPc' = "raised"
    /\ UNCHANGED <<errCall, py, appVars, winVars, iconVars>>

\* The caller has the result or the exception; the next call can start.
CallerContinues ==
    /\ errPc \in {"returned", "raised"}
    /\ errPc' = "idle"
    /\ errCall' = NoCall
    /\ dialogs' = <<>>
    /\ errOut' = NoOut
    /\ UNCHANGED <<py, appVars, winVars, iconVars>>

---------------------------------------------------------------------------
\* Specifications.

HostInstances ==
    { NoneObj,
      wrapInstance(HostAppPtr, "QApplication", 1),
      wrapInstance(HostAppPtr, "QGuiApplication", 1),
      wrapInstance(HostAppPtr, "QCoreApplication", 1) }

\* The accessor and the cursor before their first use.
AppIdle ==
    /\ appCached = FALSE
    /\ appCache = NoneObj
    /\ appLast = [status |-> "idle", raised |-> "", ret |-> NoneObj, before |-> NoneObj]
    /\ appReturned = {}
    /\ resolutions = 0
    /\ nextOid = 2
    /\ scopes = <<>>
    /\ nextScope = 1
    /\ exc = FALSE
    /\ calls = <<>>
    /\ overrideDepth = 0

WinIdle ==
    /\ winLog = <<>>
    /\ winOid = 1

ErrIdle ==
    /\ errPc = "idle"
    /\ errCall = NoCall
    /\ dialogs = <<>>
    /\ errOut = NoOut

IconIdle ==
    /\ iconCache = [n \in Names |-> NoEntry]
    /\ iconFirst = [n \in Names |-> NoEntry]
    /\ iconLast = [name |-> <<>>, ret |-> <<>>, first |-> FALSE]

\* Each specification starts its own helper from every host configuration
\* and keeps the other helpers idle.
InitApp ==
    /\ AppIdle /\ WinIdle /\ IconIdle /\ ErrIdle
    /\ py = 3 /\ hostWindow = NoneObj /\ environ = Unset /\ files = {}
    /\ instance \in HostInstances

NextApp ==
    \/ Call_get_application
    \/ HostStartsApplication
    \/ WaitCursor_enter
    \/ BodyRaises
    \/ ExceptionHandled
    \/ WaitCursor_exit

SpecApp == InitApp /\ [][NextApp]_vars

InitWin ==
    /\ AppIdle /\ WinIdle /\ IconIdle /\ ErrIdle
    /\ instance = NoneObj /\ environ = Unset /\ files = {}
    /\ py \in {2, 3}
    /\ hostWindow \in HostWindowValues

NextWin ==
    \/ Call_get_main_window
    \/ HostWindowChanges

SpecWin == InitWin /\ [][NextWin]_vars

InitIcon ==
    /\ AppIdle /\ WinIdle /\ IconIdle /\ ErrIdle
    /\ instance = NoneObj /\ py = 3 /\ hostWindow = NoneObj
    /\ environ \in EnvValues
    /\ files \in SUBSET FilePool

NextIcon ==
    \/ Lookup
    \/ SetEnvironment
    \/ FileChanges

SpecIcon == InitIcon /\ [][NextIcon]_vars

InitErr ==
    /\ AppIdle /\ WinIdle /\ IconIdle /\ ErrIdle
    /\ instance = NoneObj /\ hostWindow = NoneObj /\ environ = Unset /\ files = {}
    /\ py \in {2, 3}

NextErr ==
    \/ Call_wrapper
    \/ DialogDismissed
    \/ CallerContinues

SpecErr == InitErr /\ [][NextErr]_vars

---------------------------------------------------------------------------
\* Properties.

Range(f) == { f[i] : i \in DOMAIN f }

\* The places in the recorded call sequence of one kind of call of a scope.
Positions(op, id) == { i \in DOMAIN calls : calls[i] = Event(op, id) }
Count(op) == Cardinality({ i \in DOMAIN calls : calls[i].op = op })

\* C1: every WaitCursor scope that was entered made exactly one
\* setOverrideCursor call; once closed, normally or by an exception of its
\* body, it made exactly one restoreOverrideCursor call after it, and the
\* restore precedes the exception leaving the scope; with every scope closed
\* the restores equal the set calls and no override is left on the
\* toolkit's stack.
C1_WaitCursorBalanced ==
    /\ \A id \in 1..(nextScope - 1) :
         LET S == Positions("setOverrideCursor", id)
             R == Positions("restoreOverrideCursor", id)
             L == Positions("leave", id)
         IN  /\ Cardinality(S) = 1
             /\ Cardinality(R) = IF id \in Range(scopes) THEN 0 ELSE 1
             /\ Cardinality(L) <= 1
             /\ \A i \in S, j \in R : i < j
             /\ \A k \in L : R # {} /\ \A j \in R : j < k
    /\ scopes = <<>> => Count("restoreOverrideCursor") = Count("setOverrideCursor")
    /\ overrideDepth = Len(scopes)

\* C1 witness: two nested scopes, the inner body raised, the exception left
\* both scopes and both are closed.
C1_NestedScopesClosedByException ==
    /\ scopes = <<>>
    /\ Len(calls) = 6
    /\ calls[1] = Event("setOverrideCursor", 1)
    /\ calls[2] = Event("setOverrideCursor", 2)
    /\ calls[3] = Event("restoreOverrideCursor", 2)
    /\ calls[4] = Event("leave", 2)
    /\ calls[5] = Event("restoreOverrideCursor", 1)
    /\ calls[6] = Event("leave", 1)

\* C8: all get_application() calls return one and the same object, and the
\* body of get_application runs at most once.
C8_SameReferenceResolvedOnce ==
    /\ Cardinality(appReturned) <= 1
    /\ resolutions <= 1

\* C9: get_application() never raises; what it returns is a QApplication,
\* and around the native handle of the instance that existed before the call.
C9_NoFailureSurfaced ==
    /\ appLast.status # "raised"
    /\ appLast.status = "returned" =>
         /\ appLast.ret.type = "QApplication"
         /\ appLast.before # NoneObj => appLast.ret.ptr = appLast.before.ptr

\* C10: each get_main_window() call raised RuntimeError exactly when the
\* host's handle converts to the integer zero, and otherwise returned a
\* QMainWindow around the handle the host returned at that call.
C10_RuntimeErrorIffZeroHandle ==
    \A i \in DOMAIN winLog :
        LET e == winLog[i]
            zero == e.host # NoneObj /\ e.host.ptr = 0
        IN  /\ e.raised = "RuntimeError" <=> zero
            /\ ~zero => /\ e.raised = ""
                        /\ e.ret.type = "QMainWindow"
                        /\ e.ret.ptr = e.host.ptr

\* The list of directories whose pathsep-joined form is the value of
\* XBMLANGPATH; none when the variable is unset or empty.
ListedDirectories ==
    IF ~environ.set \/ environ.value = <<>> THEN <<>>
    ELSE CHOOSE l \in DirLists : JoinDirs(l) = environ.value

\* What the first lookup of file_name is to return: the join with the first
\* listed directory in which the file exists, else ":/" and the file name.
FirstMatch(file_name) ==
    LET dirs == ListedDirectories
        found == { i \in DOMAIN dirs : join(dirs[i], file_name) \in files }
    IN  IF found = {} THEN <<":", "/">> \o file_name
        ELSE join(dirs[CHOOSE i \in found : \A j \in found : i <= j], file_name)

\* C6: a first lookup of a file name returns the join of the name with the
\* first directory of XBMLANGPATH, in the listed order, in which the file
\* exists, and ":/" followed by the name when there is none or the variable
\* is unset or empty.
C6_FirstLookupFindsFirstMatch ==
    [][\A n \in Names :
         (Call_get_icon_file_path(n) /\ ~iconFirst[n].has)
            => iconLast'.ret = FirstMatch(n)]_vars

\* C6 witness: XBMLANGPATH is "/A:/B", "x" exists in /B only, and the first
\* lookup of "x" returned "/B/x".
C6_FoundInSecondDirectory ==
    /\ environ = EnvString(<<"/", "A", ":", "/", "B">>)
    /\ <<"/", "A", "/", "x">> \notin files
    /\ <<"/", "B", "/", "x">> \in files
    /\ iconLast = [name |-> <<"x">>, ret |-> <<"/", "B", "/", "x">>, first |-> TRUE]

\* C7: every call returns what the first call for that file name returned,
\* and no step changes an existing cache entry.
C7_LaterLookupsReturnFirstValue ==
    /\ [](iconLast.name \in Names =>
            /\ iconFirst[iconLast.name].has
            /\ iconLast.ret = iconFirst[iconLast.name].value)
    /\ [][\A n \in Names : iconCache[n].has => iconCache'[n] = iconCache[n]]_vars

\* C7 witness: a repeated lookup returned the value of the first one although
\* a lookup run now would find something else, and the other name has been
\* looked up too.
C7_StaleValueReturned ==
    /\ iconLast.name \in Names
    /\ ~iconLast.first
    /\ iconLast.ret # get_icon_file_path(iconLast.name, environ, files)
    /\ \A n \in Names : iconCache[n].has

\* The exception the wrapped callable raised in the current call.
Original == errCall.outcome.exc

\* C2: the exception that reaches the caller of the wrapper is the one the
\* wrapped callable raised, and the wrapper does not return after a raise.
C2_OriginalExceptionReachesCaller ==
    /\ errPc = "raised" => errOut.exc = Original
    /\ errCall.outcome.kind = "raise" => errPc # "returned"

\* C3: an exception of a class whose constructor takes two arguments reaches
\* the caller as a RuntimeError carrying the original value.
C3_PairErrorBecomesRuntimeError ==
    (errPc = "raised" /\ ~CtorAccepts(Original.cls, 1)) =>
        /\ errOut.exc.cls = "RuntimeError"
        /\ errOut.exc.carries = Original.oid

\* C4 as stated: a return shows no dialog and passes the result through; any
\* exception shows exactly one dialog, dismissed before it propagates.
C4_AnyExceptionShowsDialog ==
    /\ errPc = "returned" => dialogs = <<>> /\ errOut.value = errCall.outcome.value
    /\ errPc = "raised" => Len(dialogs) = 1 /\ ~dialogs[1].open

\* C4: a return shows no dialog and passes the result through; an exception
\* that is an instance of Exception shows exactly one dialog, and nothing
\* reaches the caller until it is dismissed; any other exception propagates
\* with no dialog.
C4_ExceptionShowsDialogThenPropagates ==
    /\ errPc = "returned" =>
         /\ dialogs = <<>>
         /\ errOut = [kind |-> "return", value |-> errCall.outcome.value, exc |-> NoExc]
    /\ errPc = "exec_" => errOut.kind = "none" /\ Len(dialogs) = 1 /\ dialogs[1].open
    /\ errPc = "raised" =>
         /\ errOut.kind = "raise"
         /\ IF "Exception" \in ExcBases(Original.cls)
            THEN Len(dialogs) = 1 /\ ~dialogs[1].open
            ELSE dialogs = <<>>
    /\ (errCall.outcome.kind = "raise" /\ "Exception" \in ExcBases(Original.cls))
         => errPc \in {"exec_", "raised"}

\* C4 witness: the callable raised, one dialog was shown and dismissed, and
\* the exception has reached the caller.
C4_DialogDismissedBeforeRaise ==
    /\ errPc = "raised"
    /\ Len(dialogs) = 1
    /\ ~dialogs[1].open
    /\ errOut.kind = "raise"

\* C5: the dialog shown for the raised exception e is critical, titled with
\* e's class name, reads str(e), and its parent is the first positional
\* argument when that is a widget and None otherwise.
C5_DialogContents ==
    \A i \in DOMAIN dialogs :
        LET d == dialogs[i]
            first_is_widget == /\ errCall.args # <<>>
                               /\ errCall.args[1].type \in {"QWidget", "QPushButton", "QMainWindow"}
        IN  /\ d.icon = "Critical"
            /\ d.title = Original.cls
            /\ d.text = str(Original)
            /\ d.parent = IF first_is_widget THEN errCall.args[1] ELSE NoneObj

\* C5 witness: ValueError("boom") raised with a widget as first argument.
C5_ValueErrorBoomWithWidget ==
    /\ errPc = "exec_"
    /\ errCall.args # <<>> /\ errCall.args[1] = Widget
    /\ Original = Exc("ValueError", <<"boom">>, 1)
    /\ dialogs = <<[parent |-> Widget, icon |-> "Critical", text |-> "boom",
                    title |-> "ValueError", buttons |-> {"Ok"}, open |-> TRUE]>>

=============================================================================
